---- MODULE Spec2Model ----
(***************************************************************************)
(* Model of the gajanraj-portfolio repository.                             *)
(*                                                                         *)
(* Two programs live in the repository:                                    *)
(*   - the page (three near-duplicate App files): the useInView hook, the  *)
(*     Counter (requestAnimationFrame linear, requestAnimationFrame        *)
(*     ease-out, setInterval) and the Typewriter (effect-chained timeouts, *)
(*     timeout + interval);                                                *)
(*   - generate-pdf.cjs: the one-shot puppeteer export script.             *)
(*                                                                         *)
(* Time is in milliseconds.  A timer callback never runs before its due    *)
(* time and may run arbitrarily late.  A requestAnimationFrame callback    *)
(* receives the frame's timestamp, which is the time the frame began and   *)
(* can be earlier than a performance.now() read taken after that.          *)
(* React: a state setter called on an unmounted component changes nothing; *)
(* an effect runs after the render that changed one of its dependencies,   *)
(* as a step of its own.                                                   *)
(* JavaScript numbers are computed exactly (rationals); for the inputs     *)
(* drawn below the IEEE results coincide with the exact ones.              *)
(***************************************************************************)
EXTENDS Integers, Sequences, FiniteSets, TLC

(* ------------------------------ bounds --------------------------------- *)
MaxNow == 1600
FineHorizon == 128
MaxTextLen == 3
MaxEntries == 2
MaxInflight == 2
MaxLoops == 2

(* ------------------------- program constants --------------------------- *)
DurationLinear == 1500
IntervalMs == 16

(* ------------------------------ inputs --------------------------------- *)
Inst == {1, 2}
InitTimes == {0, 16}
TimeSteps == {16, 500}
FrameLags == {0, 16}
Thresholds == {10, 50}
Ends == {0, 3, 10}
Durations == {0, 40, 64}
Delays == {0, 32}
Speeds == {16, 32}
Chars == <<"C", "o", "n">>

CounterKinds == {"counterRafLinear", "counterRafEase", "counterInterval"}
TypewriterKinds == {"twEffect", "twInterval"}
Kinds == {"reveal"} \cup CounterKinds \cup TypewriterKinds
SkillKinds == {"skillItem", "skillBar"}
PropEnds == {3, 10}
PropDurations == {40, 64}
Levels == {80, 95}
SkillDelays == {0, 5}
ScrollYs == {0, 50, 51, 120}
ParallaxSpeeds == {3, 5}
ClientXs == {0, 100, 200}
ClientYs == {0, 50}
InnerWidths == {200, 400}
InnerHeights == {100}

TextOf(n) == [j \in 1..n |-> Chars[((j - 1) % Len(Chars)) + 1]]
Texts == {TextOf(n) : n \in 0..MaxTextLen}
PropTexts == <<TextOf(2), <<"n", "o">>, TextOf(1)>>

EntryLists == UNION {[1..n -> BOOLEAN] : n \in 1..MaxEntries}

(* --------------------------- JavaScript numbers ------------------------ *)
Num(n) == [k |-> "num", v |-> n]
NaN == [k |-> "nan", v |-> 0]
NegInf == [k |-> "ninf", v |-> 0]

Min(a, b) == IF a <= b THEN a ELSE b
Pow4(x) == x * x * x * x

VARIABLES
  now,        \* performance.now() / the timers' clock
  frameOk,    \* time has passed since the last rendering frame
  kind,       \* which component each instance is
  life,       \* "new", "mounted", "unmounted"
  mountedAt,  \* clock value when the instance mounted
  hasEl,      \* ref.current holds an element
  threshold,  \* useInView threshold, in percent
  observing,  \* the instance's IntersectionObserver observes its element
  isInView,   \* useInView state
  end,        \* Counter prop
  duration,   \* Counter prop (fixed 1500 in the linear variant)
  count,      \* Counter state
  cEff,       \* the dependencies the Counter effect last ran with, <<>> before its first run
  rafQ,       \* pending requestAnimationFrame callbacks of the Counter
  ivl,        \* pending setInterval timer of the Counter
  text,       \* Typewriter prop
  speed,      \* Typewriter prop
  delay,      \* Typewriter prop
  displayed,  \* Typewriter state displayed / displayText
  started,    \* Typewriter state (effect-chained variant)
  tEff,       \* the dependencies the typing effect last ran with, <<>> before its first run
  startTO,    \* pending start-delay timeout of the Typewriter
  charTO,     \* pending per-character timeout (effect-chained variant)
  twIvl,      \* pending per-character intervals (interval variant)
  level,      \* skill bar prop skill.level
  width,      \* skill bar state
  wEff,       \* <<isInView>> the skill bar effect last ran with, <<>> before its first run
  widthTO,    \* pending width timeouts of the skill bar
  appLife,    \* App: "new", "mounted", "unmounted"
  scrollY,    \* window.scrollY
  pSpeed,     \* useParallax argument, in tenths
  offset,     \* useParallax state, in tenths of a pixel
  scrolled,   \* App state
  position,   \* useMousePosition state, in hundredths
  listeners,  \* the window's registered event listeners, in order
  pc,         \* export script: the call being awaited
  calls,      \* export script: the calls issued so far, in order
  okSteps,    \* export script: the calls that resolved, in order
  srcExists,  \* cv.html exists next to the script
  browser,    \* "none", "open", "crashed", "closed"
  pageOpen,   \* a page was created in the browser
  loaded,     \* the page's document was read from the file
  inflight,   \* network connections of the page currently open
  quiet,      \* no connection has been open for the idle window
  outFile,    \* the output file: its state and the options it was written with
  stdout,     \* lines printed
  exitCode    \* "running", 0 or 1

envVars == <<now, frameOk>>
propVars == <<kind, hasEl, end, duration, text, speed, delay, level>>
hookVars == <<life, mountedAt, threshold, observing, isInView>>
counterVars == <<count, cEff, rafQ, ivl>>
twVars == <<displayed, started, tEff, startTO, charTO, twIvl>>
skillVars == <<width, wEff, widthTO>>
componentVars == <<envVars, propVars, hookVars, counterVars, twVars, skillVars>>
inputVars == <<appLife, scrollY, pSpeed, offset, scrolled, position, listeners>>
pageVars == <<componentVars, inputVars>>
pdfVars == <<pc, calls, okSteps, srcExists, browser, pageOpen, loaded,
             inflight, quiet, outFile, stdout, exitCode>>
vars == <<pageVars, pdfVars>>

(* ============================ the page ================================= *)

KindOf(k1, pair) ==
  [i \in Inst |-> IF i = 1 THEN k1 ELSE IF pair THEN "reveal" ELSE "none"]

DefaultThreshold(k) ==
  IF k = "counterRafLinear" THEN 15 ELSE IF k = "skillBar" THEN 50 ELSE 20

\* The components of a page before their first render: instance 1 is of one
\* of the kinds ks, instance 2 is a second Reveal or absent.
InitComponents(ks) ==
  /\ now \in InitTimes
  /\ frameOk = TRUE
  /\ \E k1 \in ks, pair \in BOOLEAN :
       /\ pair => k1 = "reveal"
       /\ kind = KindOf(k1, pair)
  /\ hasEl \in [Inst -> BOOLEAN]
  /\ \A i \in Inst : kind[i] = "none" => ~hasEl[i]
  /\ threshold = [i \in Inst |-> DefaultThreshold(kind[i])]
  /\ end \in [Inst -> Ends]
  /\ \A i \in Inst : kind[i] \notin CounterKinds => end[i] = 0
  /\ duration \in [Inst -> Durations \cup {DurationLinear}]
  /\ \A i \in Inst : CASE kind[i] = "counterRafLinear" -> duration[i] = DurationLinear
                       [] kind[i] \in {"counterRafEase", "counterInterval"} -> duration[i] \in Durations
                       [] OTHER -> duration[i] = 0
  /\ text \in [Inst -> Texts]
  /\ speed \in [Inst -> Speeds]
  /\ delay \in [Inst -> Delays \cup SkillDelays]
  /\ level \in [Inst -> Levels \cup {0}]
  /\ \A i \in Inst : kind[i] \notin TypewriterKinds =>
         text[i] = <<>> /\ speed[i] = 16
  /\ \A i \in Inst : CASE kind[i] \in TypewriterKinds -> delay[i] \in Delays /\ level[i] = 0
                       [] kind[i] \in SkillKinds -> delay[i] \in SkillDelays /\ level[i] \in Levels
                       [] OTHER -> delay[i] = 0 /\ level[i] = 0
  /\ life = [i \in Inst |-> "new"]
  /\ mountedAt = [i \in Inst |-> 0]
  /\ observing = [i \in Inst |-> FALSE]
  /\ isInView = [i \in Inst |-> FALSE]
  /\ count = [i \in Inst |-> Num(0)]
  /\ cEff = [i \in Inst |-> <<>>]
  /\ rafQ = [i \in Inst |-> <<>>]
  /\ ivl = [i \in Inst |-> <<>>]
  /\ displayed = [i \in Inst |-> <<>>]
  /\ started = [i \in Inst |-> FALSE]
  /\ tEff = [i \in Inst |-> <<>>]
  /\ startTO = [i \in Inst |-> <<>>]
  /\ charTO = [i \in Inst |-> <<>>]
  /\ twIvl = [i \in Inst |-> <<>>]
  /\ width = [i \in Inst |-> 0]
  /\ wEff = [i \in Inst |-> <<>>]
  /\ widthTO = [i \in Inst |-> <<>>]

\* App is not rendered: nothing listens on the window.
InputIdle ==
  /\ appLife = "new"
  /\ scrollY = 0
  /\ pSpeed = 3
  /\ offset = 0
  /\ scrolled = FALSE
  /\ position = [x |-> 0, y |-> 0]
  /\ listeners = <<>>

InitPage == InitComponents(Kinds) /\ InputIdle

NoFile(st) ==
  [state |-> st, path |-> "", format |-> "", printBackground |-> FALSE,
   margin |-> <<>>]

PdfNotRun ==
  /\ pc = "notRun"
  /\ calls = <<>>
  /\ okSteps = <<>>
  /\ srcExists = FALSE
  /\ browser = "none"
  /\ pageOpen = FALSE
  /\ loaded = FALSE
  /\ inflight = 0
  /\ quiet = FALSE
  /\ outFile = NoFile("absent")
  /\ stdout = <<>>
  /\ exitCode = "running"

(* ------------------------------ useInView ------------------------------ *)

\* new IntersectionObserver(...); ref.current && observer.observe(ref.current)
ObserveOnEffect(el) == el

\* Faulty variants of the callback: setIsInView(entry.isIntersecting), and a
\* toggle on every intersecting entry.
LatchNext_Follow(cur, entries) == entries[1]
LatchNext_Toggle(cur, entries) == IF entries[1] THEN ~cur ELSE cur

\* ([entry]) => entry.isIntersecting && setIsInView(true)
LatchNext(cur, entries) == IF entries[1] THEN TRUE ELSE cur

\* Faulty variant: the effect returns no cleanup.
Disconnect_Leak(obs) == obs

\* return () => observer.disconnect()
Disconnect(obs) == FALSE

\* First render; the useInView effect and the Typewriter's start-delay effect
\* run with it, the Counter's effect and the typing effect as steps of their
\* own.
Mount(i) ==
  /\ life[i] = "new"
  /\ kind[i] # "none"
  /\ life' = [life EXCEPT ![i] = "mounted"]
  /\ mountedAt' = [mountedAt EXCEPT ![i] = now]
  /\ observing' = [observing EXCEPT ![i] = ObserveOnEffect(hasEl[i])]
  /\ startTO' = [startTO EXCEPT ![i] =
                   IF kind[i] \in TypewriterKinds THEN <<now + delay[i]>> ELSE <<>>]
  /\ UNCHANGED <<envVars, propVars, threshold, isInView, counterVars,
                 displayed, started, tEff, charTO, twIvl, skillVars, inputVars, pdfVars>>

\* The observer delivers its entries to the callback.
IOCallback(i, entries) ==
  /\ observing[i]
  /\ isInView' = [isInView EXCEPT ![i] =
                    IF life[i] = "mounted" THEN LatchNext(@, entries) ELSE @]
  /\ UNCHANGED <<envVars, propVars, life, mountedAt, threshold, observing,
                 counterVars, twVars, skillVars, inputVars, pdfVars>>

\* The caller passes another threshold: the effect's cleanup disconnects the
\* old observer and the effect creates and subscribes a new one.
ThresholdChange(i, t) ==
  /\ life[i] = "mounted"
  /\ kind[i] = "reveal"
  /\ t # threshold[i]
  /\ threshold' = [threshold EXCEPT ![i] = t]
  /\ observing' = [observing EXCEPT ![i] = ObserveOnEffect(hasEl[i])]
  /\ UNCHANGED <<envVars, propVars, life, mountedAt, isInView, counterVars,
                 twVars, skillVars, inputVars, pdfVars>>

(* ------------------------------- Counter ------------------------------- *)

\* Faulty variants of the guard: none, and inverted.
CounterRuns_NoGuard(inView) == TRUE
CounterRuns_Inverted(inView) == ~inView

\* if (!isInView) return
CounterRuns(inView) == inView

\* Faulty variant: the props are kept in one place shared by all Counters.
Closure_Shared(i) == [start |-> now, end |-> end[1], duration |-> duration[1]]

\* A requestAnimationFrame callback closes over start and the props.
Closure(i) == [start |-> now, end |-> end[i], duration |-> duration[i]]

\* Math.min((now - start) / duration, 1) < 1, for the timestamp ts
ProgressBelowOne(cl, ts) ==
  IF cl.duration = 0 THEN ts - cl.start < 0
  ELSE ts - cl.start < cl.duration

\* Math.floor(progress * end)
LinearValue(cl, ts) ==
  IF ts - cl.start >= cl.duration THEN Num(cl.end)
  ELSE Num(((ts - cl.start) * cl.end) \div cl.duration)

\* eased = 1 - Math.pow(1 - progress, 4); Math.floor(eased * end)
EaseValue(cl, ts) ==
  LET e == ts - cl.start
      D == cl.duration
  IN  IF D = 0
      THEN IF e > 0 THEN Num(cl.end)
           ELSE IF e = 0 THEN NaN
           ELSE IF cl.end = 0 THEN NaN ELSE NegInf
      ELSE IF e >= D THEN Num(cl.end)
           ELSE Num((cl.end * (Pow4(D) - Pow4(D - e))) \div Pow4(D))

AnimateValue(k, cl, ts) ==
  IF k = "counterRafLinear" THEN LinearValue(cl, ts) ELSE EaseValue(cl, ts)

\* Faulty variant: animate always requests another frame.
Reschedules_Always(cl, ts) == TRUE

\* if (progress < 1) requestAnimationFrame(animate)
Reschedules(cl, ts) == ProgressBelowOne(cl, ts)

\* The callbacks of one instance that a frame leaves pending.
RECURSIVE KeepPending(_, _)
KeepPending(q, ts) ==
  IF q = <<>> THEN <<>>
  ELSE IF Reschedules(Head(q), ts)
       THEN <<Head(q)>> \o KeepPending(Tail(q), ts)
       ELSE KeepPending(Tail(q), ts)

\* useEffect(..., [isInView, end(, duration)]) of the requestAnimationFrame
\* variants: no cleanup is returned.
RafCleanup(q) == q

\* return () => clearInterval(timer)
IntervalCleanup(t) == <<>>

\* setInterval(..., 16) with let start = 0: k counts the ticks delivered, so
\* the accumulator start is k * end / (duration / 16).
NewInterval(i) ==
  <<[due |-> now + IntervalMs, k |-> 0, end |-> end[i], duration |-> duration[i]]>>

\* start += increment; start >= end
IntervalReached(t) ==
  IF t.duration = 0 THEN t.end > 0
  ELSE (t.k + 1) * IntervalMs * t.end >= t.end * t.duration

\* setCount(end) or setCount(Math.floor(start))
IntervalValue(t) ==
  IF IntervalReached(t) THEN Num(t.end)
  ELSE IF t.duration = 0 THEN NaN
  ELSE Num(((t.k + 1) * IntervalMs * t.end) \div t.duration)

\* [isInView, end, duration]; [isInView, end] in the linear variant, whose
\* duration is a constant of the effect.
CounterDeps(i) == <<isInView[i], end[i], duration[i]>>

\* The Counter's effect runs after the first render and after every render
\* in which one of its dependencies changed.
CounterEffect(i) ==
  /\ life[i] = "mounted"
  /\ kind[i] \in CounterKinds
  /\ cEff[i] # CounterDeps(i)
  /\ cEff' = [cEff EXCEPT ![i] = CounterDeps(i)]
  /\ IF kind[i] = "counterInterval"
     THEN /\ ivl' = [ivl EXCEPT ![i] =
                       IF CounterRuns(isInView[i]) THEN NewInterval(i)
                       ELSE IntervalCleanup(@)]
          /\ UNCHANGED rafQ
     ELSE /\ rafQ' = [rafQ EXCEPT ![i] =
                        IF CounterRuns(isInView[i])
                        THEN Append(RafCleanup(@), Closure(i))
                        ELSE RafCleanup(@)]
          /\ UNCHANGED ivl
  /\ UNCHANGED <<envVars, propVars, hookVars, count, twVars, skillVars, inputVars, pdfVars>>

\* A rendering frame: every pending animate callback runs with the frame's
\* timestamp, in the order it was requested.
Frame(lag) ==
  /\ frameOk
  /\ lag <= now
  /\ \E i \in Inst : rafQ[i] # <<>>
  /\ LET ts == now - lag IN
       /\ count' = [i \in Inst |->
                      IF rafQ[i] # <<>> /\ life[i] = "mounted"
                      THEN AnimateValue(kind[i], rafQ[i][Len(rafQ[i])], ts)
                      ELSE count[i]]
       /\ rafQ' = [i \in Inst |-> KeepPending(rafQ[i], ts)]
  /\ frameOk' = FALSE
  /\ UNCHANGED <<now, propVars, hookVars, cEff, ivl, twVars, skillVars, inputVars, pdfVars>>

\* The interval timer of the setInterval variant fires.
IntervalTick(i) ==
  /\ ivl[i] # <<>>
  /\ now >= ivl[i][1].due
  /\ LET t == ivl[i][1] IN
       /\ count' = [count EXCEPT ![i] =
                      IF life[i] = "mounted" THEN IntervalValue(t) ELSE @]
       /\ ivl' = [ivl EXCEPT ![i] =
                    IF IntervalReached(t) THEN <<>>
                    ELSE <<[t EXCEPT !.due = @ + IntervalMs, !.k = @ + 1]>>]
  /\ UNCHANGED <<envVars, propVars, hookVars, cEff, rafQ, twVars, skillVars, inputVars, pdfVars>>

(* ------------------------------ Typewriter ----------------------------- *)

\* Faulty variant: the whole text at once.
Slice_Whole(t, n) == t

\* text.slice(0, n)
Slice(t, n) == SubSeq(t, 1, Min(n, Len(t)))

\* setTimeout(() => setDisplayed(text.slice(0, displayed.length + 1)), speed)
NewCharTimeout(i) ==
  <<[due |-> now + speed[i], n |-> Len(displayed[i]), text |-> text[i]]>>

\* return () => clearTimeout(timeout)
ClearTimeout(t) == <<>>

\* let i = 0; setInterval(..., speed)
NewCharInterval(i) ==
  <<[due |-> now + speed[i], idx |-> 0, text |-> text[i], speed |-> speed[i]]>>

\* The interval variant's cleanup is () => clearTimeout(timeout) only: the
\* () => clearInterval(timer) returned from inside the timeout callback is
\* the callback's return value and is never called.
TypewriterIntervalCleanup(t) == t

\* The start-delay timeout fires.
TwStartFire(i) ==
  /\ startTO[i] # <<>>
  /\ now >= startTO[i][1]
  /\ startTO' = [startTO EXCEPT ![i] = <<>>]
  /\ IF kind[i] = "twEffect"
     THEN /\ started' = [started EXCEPT ![i] =
                           IF life[i] = "mounted" THEN TRUE ELSE @]
          /\ UNCHANGED twIvl
     ELSE /\ twIvl' = [twIvl EXCEPT ![i] = @ \o NewCharInterval(i)]
          /\ UNCHANGED started
  /\ UNCHANGED <<envVars, propVars, hookVars, counterVars, displayed, tEff,
                 charTO, skillVars, inputVars, pdfVars>>

\* [started, displayed, text, speed]
TypingDeps(i) == <<started[i], displayed[i], text[i], speed[i]>>

\* The typing effect of the effect-chained variant runs after the first
\* render and after every render in which one of its dependencies changed.
TwEffect(i) ==
  /\ life[i] = "mounted"
  /\ kind[i] = "twEffect"
  /\ tEff[i] # TypingDeps(i)
  /\ tEff' = [tEff EXCEPT ![i] = TypingDeps(i)]
  /\ charTO' = [charTO EXCEPT ![i] =
                  IF started[i] /\ Len(displayed[i]) < Len(text[i])
                  THEN NewCharTimeout(i)
                  ELSE ClearTimeout(@)]
  /\ UNCHANGED <<envVars, propVars, hookVars, counterVars, displayed, started,
                 startTO, twIvl, skillVars, inputVars, pdfVars>>

\* The per-character timeout of the effect-chained variant fires.
TwCharFire(i) ==
  /\ charTO[i] # <<>>
  /\ now >= charTO[i][1].due
  /\ displayed' = [displayed EXCEPT ![i] =
                     IF life[i] = "mounted"
                     THEN Slice(charTO[i][1].text, charTO[i][1].n + 1) ELSE @]
  /\ charTO' = [charTO EXCEPT ![i] = <<>>]
  /\ UNCHANGED <<envVars, propVars, hookVars, counterVars, started, tEff,
                 startTO, twIvl, skillVars, inputVars, pdfVars>>

\* A per-character interval of the interval variant fires.
TwIntervalTick(i) ==
  /\ \E j \in 1..Len(twIvl[i]) :
       /\ now >= twIvl[i][j].due
       /\ LET t == twIvl[i][j] IN
            IF t.idx < Len(t.text)
            THEN /\ displayed' = [displayed EXCEPT ![i] =
                                    IF life[i] = "mounted"
                                    THEN Slice(t.text, t.idx + 1) ELSE @]
                 /\ twIvl' = [twIvl EXCEPT ![i][j] =
                                [t EXCEPT !.due = @ + t.speed, !.idx = @ + 1]]
            ELSE /\ twIvl' = [twIvl EXCEPT ![i] =
                                SubSeq(@, 1, j - 1) \o SubSeq(@, j + 1, Len(@))]
                 /\ UNCHANGED displayed
  /\ UNCHANGED <<envVars, propVars, hookVars, counterVars, started, tEff,
                 startTO, charTO, skillVars, inputVars, pdfVars>>

(* ------------------------- SkillItem / SkillBar ------------------------ *)

\* delay * 1000 (SkillItem), delay * 1000 + 200 (SkillBar); delay is held in
\* hundredths of a second.
SkillTimeout(k, d) == d * 10 + (IF k = "skillBar" THEN 200 ELSE 0)

\* setTimeout(() => setWidth(skill.level), ...)
NewWidthTimeout(i) ==
  [due |-> now + SkillTimeout(kind[i], delay[i]), level |-> level[i]]

\* SkillBar returns () => clearTimeout(timeout); SkillItem returns nothing.
SkillCleanup(k, q) == IF k = "skillBar" THEN <<>> ELSE q

\* The skill bar's effect runs after the first render and after every render
\* in which isInView changed.
SkillEffect(i) ==
  /\ life[i] = "mounted"
  /\ kind[i] \in SkillKinds
  /\ wEff[i] # <<isInView[i]>>
  /\ wEff' = [wEff EXCEPT ![i] = <<isInView[i]>>]
  /\ widthTO' = [widthTO EXCEPT ![i] =
                   IF isInView[i]
                   THEN Append(SkillCleanup(kind[i], @), NewWidthTimeout(i))
                   ELSE SkillCleanup(kind[i], @)]
  /\ UNCHANGED <<envVars, propVars, hookVars, counterVars, twVars, width,
                 inputVars, pdfVars>>

\* A width timeout fires: setWidth(skill.level), which React ignores for a
\* component that is no longer mounted.
WidthTimerFire(i) ==
  /\ widthTO[i] # <<>>
  /\ now >= Head(widthTO[i]).due
  /\ width' = [width EXCEPT ![i] =
                 IF life[i] = "mounted" THEN Head(widthTO[i]).level ELSE @]
  /\ widthTO' = [widthTO EXCEPT ![i] = Tail(@)]
  /\ UNCHANGED <<envVars, propVars, hookVars, counterVars, twVars, wEff,
                 inputVars, pdfVars>>

(* ------------------------------- teardown ------------------------------ *)

\* The component is removed: React runs the cleanup of every effect.
Unmount(i) ==
  /\ life[i] = "mounted"
  /\ life' = [life EXCEPT ![i] = "unmounted"]
  /\ observing' = [observing EXCEPT ![i] = Disconnect(@)]
  /\ rafQ' = [rafQ EXCEPT ![i] = RafCleanup(@)]
  /\ ivl' = [ivl EXCEPT ![i] = IntervalCleanup(@)]
  /\ startTO' = [startTO EXCEPT ![i] = ClearTimeout(@)]
  /\ charTO' = [charTO EXCEPT ![i] = ClearTimeout(@)]
  /\ twIvl' = [twIvl EXCEPT ![i] = TypewriterIntervalCleanup(@)]
  /\ widthTO' = [widthTO EXCEPT ![i] = SkillCleanup(kind[i], @)]
  /\ UNCHANGED <<envVars, propVars, mountedAt, threshold, isInView, count,
                 cEff, displayed, started, tEff, width, wEff, inputVars, pdfVars>>

(* -------------------------------- clock -------------------------------- *)

EffectDue(i) ==
  /\ life[i] = "mounted"
  /\ \/ kind[i] \in CounterKinds /\ cEff[i] # CounterDeps(i)
     \/ kind[i] = "twEffect" /\ tEff[i] # TypingDeps(i)
     \/ kind[i] \in SkillKinds /\ wEff[i] # <<isInView[i]>>

Busy(i) ==
  \/ rafQ[i] # <<>>
  \/ ivl[i] # <<>>
  \/ startTO[i] # <<>>
  \/ charTO[i] # <<>>
  \/ twIvl[i] # <<>>
  \/ widthTO[i] # <<>>
  \/ EffectDue(i)

\* Time passes while something of the page is scheduled.  The clock is
\* sampled in fine steps up to FineHorizon and in coarse steps after it.
Tick(dt) ==
  /\ \E i \in Inst : Busy(i)
  /\ now + dt <= MaxNow
  /\ dt < FineHorizon => now < FineHorizon
  /\ now' = now + dt
  /\ frameOk' = TRUE
  /\ UNCHANGED <<propVars, hookVars, counterVars, twVars, skillVars, inputVars, pdfVars>>

NextPage ==
  \/ \E i \in Inst : Mount(i)
  \/ \E i \in Inst, es \in EntryLists : IOCallback(i, es)
  \/ \E i \in Inst, t \in Thresholds : ThresholdChange(i, t)
  \/ \E i \in Inst : CounterEffect(i)
  \/ \E lag \in FrameLags : Frame(lag)
  \/ \E i \in Inst : IntervalTick(i)
  \/ \E i \in Inst : TwStartFire(i)
  \/ \E i \in Inst : TwEffect(i)
  \/ \E i \in Inst : TwCharFire(i)
  \/ \E i \in Inst : TwIntervalTick(i)
  \/ \E i \in Inst : Unmount(i)
  \/ \E dt \in TimeSteps : Tick(dt)

Init == InitPage /\ PdfNotRun
Next == NextPage
Spec == Init /\ [][Next]_vars

(* ------------- App: useParallax, useMousePosition, scrolled ------------ *)

\* The handlers App registers on the window; the parallax handler closes
\* over the speed it was created with.
HandleParallax(sp) == [type |-> "scroll", fn |-> "parallax", speed |-> sp]
HandleScrolled == [type |-> "scroll", fn |-> "scrolled", speed |-> 0]
HandleMove == [type |-> "mousemove", fn |-> "mouse", speed |-> 0]

\* window.addEventListener(type, handler)
AddEventListener(ls, h) ==
  IF \E j \in 1..Len(ls) : ls[j] = h THEN ls ELSE Append(ls, h)

\* Faulty variant: the cleanup removes nothing.
RemoveEventListener_Leak(ls, h) == ls

\* window.removeEventListener(type, handler)
RemoveEventListener(ls, h) == SelectSeq(ls, LAMBDA l : l # h)

\* The registered handlers of one kind, in registration order.
Handlers(ls, f) == SelectSeq(ls, LAMBDA l : l.fn = f)

\* window.scrollY * speed
ParallaxOffset(y, sp) == y * sp

\* window.scrollY > 50
IsScrolled(y) == y > 50

\* (e.clientX / window.innerWidth - 0.5) * 20, in hundredths
MouseScale(c, size) == (c * 2000) \div size - 1000

\* App renders: the three effects register their listeners.
AppMount ==
  /\ appLife = "new"
  /\ appLife' = "mounted"
  /\ listeners' = AddEventListener(
                    AddEventListener(
                      AddEventListener(listeners, HandleParallax(pSpeed)),
                      HandleMove),
                    HandleScrolled)
  /\ UNCHANGED <<componentVars, scrollY, pSpeed, offset, scrolled, position,
                 pdfVars>>

\* The window scrolls to y and dispatches a scroll event: every registered
\* scroll handler runs, in registration order; React ignores the state
\* updates of a component that is no longer mounted.
Scroll(y) ==
  /\ y # scrollY
  /\ scrollY' = y
  /\ LET ps == Handlers(listeners, "parallax") IN
       offset' = IF ps # <<>> /\ appLife = "mounted"
                 THEN ParallaxOffset(y, ps[Len(ps)].speed)
                 ELSE offset
  /\ scrolled' = IF Handlers(listeners, "scrolled") # <<>> /\ appLife = "mounted"
                 THEN IsScrolled(y)
                 ELSE scrolled
  /\ UNCHANGED <<componentVars, appLife, pSpeed, position, listeners, pdfVars>>

\* The pointer moves to (cx, cy) in a window of w by h pixels.
MouseMove(cx, cy, w, h) ==
  /\ cx <= w
  /\ cy <= h
  /\ position' = IF Handlers(listeners, "mouse") # <<>> /\ appLife = "mounted"
                 THEN [x |-> MouseScale(cx, w), y |-> MouseScale(cy, h)]
                 ELSE position
  /\ UNCHANGED <<componentVars, appLife, scrollY, pSpeed, offset, scrolled,
                 listeners, pdfVars>>

\* useParallax is called with another speed: the effect's cleanup removes
\* the old handler and the effect registers a new one.
SpeedChange(sp) ==
  /\ appLife = "mounted"
  /\ sp # pSpeed
  /\ pSpeed' = sp
  /\ listeners' = AddEventListener(
                    RemoveEventListener(listeners, HandleParallax(pSpeed)),
                    HandleParallax(sp))
  /\ UNCHANGED <<componentVars, appLife, scrollY, offset, scrolled, position,
                 pdfVars>>

\* App is removed: the cleanups of the three effects run.
AppUnmount ==
  /\ appLife = "mounted"
  /\ appLife' = "unmounted"
  /\ listeners' = RemoveEventListener(
                    RemoveEventListener(
                      RemoveEventListener(listeners, HandleParallax(pSpeed)),
                      HandleMove),
                    HandleScrolled)
  /\ UNCHANGED <<componentVars, scrollY, pSpeed, offset, scrolled, position,
                 pdfVars>>

(* --------------------------- a skill bar alone ------------------------- *)

InitSkill == InitComponents(SkillKinds) /\ InputIdle /\ PdfNotRun

NextSkill ==
  \/ \E i \in Inst : Mount(i)
  \/ \E i \in Inst, es \in EntryLists : IOCallback(i, es)
  \/ \E i \in Inst : SkillEffect(i)
  \/ \E i \in Inst : WidthTimerFire(i)
  \/ \E i \in Inst : Unmount(i)
  \/ \E dt \in TimeSteps : Tick(dt)

SpecSkill == InitSkill /\ [][NextSkill]_vars

(* --------------------- a Counter whose props change -------------------- *)

\* The parent renders the Counter with another end or duration; the linear
\* variant takes no duration prop.
CounterPropChange(i, e, d) ==
  /\ life[i] = "mounted"
  /\ kind[i] \in CounterKinds
  /\ cEff[i] = CounterDeps(i)
  /\ <<e, d>> # <<end[i], duration[i]>>
  /\ IF kind[i] = "counterRafLinear" THEN d = duration[i] ELSE d \in PropDurations
  /\ Len(rafQ[i]) < MaxLoops
  /\ end' = [end EXCEPT ![i] = e]
  /\ duration' = [duration EXCEPT ![i] = d]
  /\ UNCHANGED <<envVars, kind, hasEl, text, speed, delay, level, hookVars,
                 counterVars, twVars, skillVars, inputVars, pdfVars>>

\* A page whose only component is a Counter with an element, in view or not.
InitCounterProps ==
  /\ InitComponents(CounterKinds)
  /\ InputIdle
  /\ PdfNotRun
  /\ now = 0
  /\ hasEl[1]
  /\ end[1] \in PropEnds
  /\ duration[1] \in PropDurations \cup {DurationLinear}

NextCounterProps ==
  \/ \E i \in Inst : Mount(i)
  \/ \E i \in Inst, b \in BOOLEAN : IOCallback(i, <<b>>)
  \/ \E i \in Inst : CounterEffect(i)
  \/ \E lag \in FrameLags : Frame(lag)
  \/ \E i \in Inst : IntervalTick(i)
  \/ \E dt \in TimeSteps : Tick(dt)
  \/ \E i \in Inst, e \in PropEnds, d \in PropDurations \cup {DurationLinear} :
       CounterPropChange(i, e, d)

SpecCounterProps == InitCounterProps /\ [][NextCounterProps]_vars

(* -------------------- a Typewriter whose props change ------------------ *)

\* The parent renders the Typewriter with another text, speed or delay.  The
\* effects that depend on delay re-run with the render: the start-delay
\* effect [delay] of the effect-chained variant, and the only effect
\* [text, speed, delay] of the interval variant, whose cleanup clears the
\* start timeout alone.  The typing effect runs as a step of its own.
TwPropChange(i, t, sp, dl) ==
  /\ life[i] = "mounted"
  /\ kind[i] \in TypewriterKinds
  /\ kind[i] = "twEffect" => tEff[i] = TypingDeps(i)
  /\ <<t, sp, dl>> # <<text[i], speed[i], delay[i]>>
  /\ Len(twIvl[i]) < MaxLoops
  /\ text' = [text EXCEPT ![i] = t]
  /\ speed' = [speed EXCEPT ![i] = sp]
  /\ delay' = [delay EXCEPT ![i] = dl]
  /\ startTO' = [startTO EXCEPT ![i] =
                   IF kind[i] = "twInterval" \/ dl # delay[i]
                   THEN <<now + dl>>
                   ELSE @]
  /\ twIvl' = [twIvl EXCEPT ![i] = TypewriterIntervalCleanup(@)]
  /\ UNCHANGED <<envVars, kind, hasEl, end, duration, level, hookVars,
                 counterVars, displayed, started, tEff, charTO, skillVars,
                 inputVars, pdfVars>>

\* The parent passes the next text of PropTexts, with any speed and delay.
TwNextText(i, sp, dl) ==
  \E k \in 1..(Len(PropTexts) - 1) :
     /\ text[i] = PropTexts[k]
     /\ TwPropChange(i, PropTexts[k + 1], sp, dl)

\* A page whose only component is a Typewriter; its parent goes through the
\* texts of PropTexts in order.
InitTypewriterProps ==
  /\ InitComponents(TypewriterKinds)
  /\ InputIdle
  /\ PdfNotRun
  /\ now = 0
  /\ hasEl[1]
  /\ text[1] = PropTexts[1]
  /\ speed[1] = 16

NextTypewriterProps ==
  \/ \E i \in Inst : Mount(i)
  \/ \E i \in Inst : TwStartFire(i)
  \/ \E i \in Inst : TwEffect(i)
  \/ \E i \in Inst : TwCharFire(i)
  \/ \E i \in Inst : TwIntervalTick(i)
  \/ \E dt \in TimeSteps : Tick(dt)
  \/ \E i \in Inst, sp \in Speeds, dl \in Delays : TwNextText(i, sp, dl)

SpecTypewriterProps == InitTypewriterProps /\ [][NextTypewriterProps]_vars

(* ------------------------ two components on a page --------------------- *)

\* Two latches, two Counters, or a Counter and a Typewriter.
PairKinds ==
  { <<"reveal", "reveal">>,
    <<"counterInterval", "counterRafEase">>,
    <<"counterRafEase", "twEffect">> }

\* Two components with an element each, before their first render.
InitPair ==
  /\ InputIdle
  /\ PdfNotRun
  /\ now = 0
  /\ frameOk = TRUE
  /\ kind \in PairKinds
  /\ hasEl = [i \in Inst |-> TRUE]
  /\ threshold = [i \in Inst |-> DefaultThreshold(kind[i])]
  /\ end = [i \in Inst |-> IF kind[i] \notin CounterKinds THEN 0
                           ELSE IF i = 1 THEN 3 ELSE 10]
  /\ duration = [i \in Inst |->
                   CASE kind[i] = "counterRafLinear" -> DurationLinear
                     [] kind[i] \in {"counterRafEase", "counterInterval"} ->
                          IF i = 1 THEN 40 ELSE 64
                     [] OTHER -> 0]
  /\ text = [i \in Inst |-> IF kind[i] \in TypewriterKinds THEN TextOf(2) ELSE <<>>]
  /\ speed = [i \in Inst |-> 16]
  /\ delay = [i \in Inst |-> IF kind[i] \in TypewriterKinds THEN 32 ELSE 0]
  /\ level = [i \in Inst |-> 0]
  /\ life = [i \in Inst |-> "new"]
  /\ mountedAt = [i \in Inst |-> 0]
  /\ observing = [i \in Inst |-> FALSE]
  /\ isInView = [i \in Inst |-> FALSE]
  /\ count = [i \in Inst |-> Num(0)]
  /\ cEff = [i \in Inst |-> <<>>]
  /\ rafQ = [i \in Inst |-> <<>>]
  /\ ivl = [i \in Inst |-> <<>>]
  /\ displayed = [i \in Inst |-> <<>>]
  /\ started = [i \in Inst |-> FALSE]
  /\ tEff = [i \in Inst |-> <<>>]
  /\ startTO = [i \in Inst |-> <<>>]
  /\ charTO = [i \in Inst |-> <<>>]
  /\ twIvl = [i \in Inst |-> <<>>]
  /\ width = [i \in Inst |-> 0]
  /\ wEff = [i \in Inst |-> <<>>]
  /\ widthTO = [i \in Inst |-> <<>>]

NextPair ==
  \/ \E i \in Inst : Mount(i)
  \/ \E i \in Inst, b \in BOOLEAN : IOCallback(i, <<b>>)
  \/ \E i \in Inst : CounterEffect(i)
  \/ \E lag \in FrameLags : Frame(lag)
  \/ \E i \in Inst : IntervalTick(i)
  \/ \E i \in Inst : TwStartFire(i)
  \/ \E i \in Inst : TwEffect(i)
  \/ \E i \in Inst : TwCharFire(i)
  \/ \E dt \in TimeSteps : Tick(dt)

SpecPair == InitPair /\ [][NextPair]_vars

(* -------------------- a Counter alone, with delivery ------------------- *)

\* A page whose only component is a Counter.
InitCounter == InitComponents(CounterKinds) /\ InputIdle /\ PdfNotRun

NextCounter ==
  \/ \E i \in Inst : Mount(i)
  \/ \E i \in Inst, es \in EntryLists : IOCallback(i, es)
  \/ \E i \in Inst : CounterEffect(i)
  \/ \E lag \in FrameLags : Frame(lag)
  \/ \E i \in Inst : IntervalTick(i)
  \/ \E i \in Inst : Unmount(i)
  \/ \E dt \in TimeSteps : Tick(dt)

\* The browser keeps rendering frames and firing due timers, React runs
\* pending effects, and time goes on.
CounterDelivery ==
  /\ WF_vars(\E lag \in FrameLags : Frame(lag))
  /\ \A i \in Inst : WF_vars(IntervalTick(i)) /\ WF_vars(CounterEffect(i))
  /\ WF_vars(\E dt \in TimeSteps : Tick(dt))

SpecCounterFair == InitCounter /\ [][NextCounter]_vars /\ CounterDelivery

(* ========================= the export script =========================== *)

StepOrder == <<"launch", "newPage", "goto", "pdf", "close", "log">>

\* Faulty variant: printBackground left out.
PdfOptions_NoBackground ==
  [state |-> "written", path |-> "CV_Gajanraj_Mohanaraj.pdf", format |-> "A4",
   printBackground |-> FALSE, margin |-> <<0, 0, 0, 0>>]

\* page.pdf({ path, format, printBackground, margin })
PdfOptions ==
  [state |-> "written", path |-> "CV_Gajanraj_Mohanaraj.pdf", format |-> "A4",
   printBackground |-> TRUE, margin |-> <<0, 0, 0, 0>>]

ConfirmationLine == "PDF generated: CV_Gajanraj_Mohanaraj.pdf"

PageIdle ==
  /\ now = 0
  /\ frameOk = TRUE
  /\ kind = [i \in Inst |-> "none"]
  /\ hasEl = [i \in Inst |-> FALSE]
  /\ threshold = [i \in Inst |-> DefaultThreshold("none")]
  /\ end = [i \in Inst |-> 0]
  /\ duration = [i \in Inst |-> 0]
  /\ text = [i \in Inst |-> <<>>]
  /\ speed = [i \in Inst |-> 16]
  /\ delay = [i \in Inst |-> 0]
  /\ life = [i \in Inst |-> "new"]
  /\ mountedAt = [i \in Inst |-> 0]
  /\ observing = [i \in Inst |-> FALSE]
  /\ isInView = [i \in Inst |-> FALSE]
  /\ count = [i \in Inst |-> Num(0)]
  /\ cEff = [i \in Inst |-> <<>>]
  /\ rafQ = [i \in Inst |-> <<>>]
  /\ ivl = [i \in Inst |-> <<>>]
  /\ displayed = [i \in Inst |-> <<>>]
  /\ started = [i \in Inst |-> FALSE]
  /\ tEff = [i \in Inst |-> <<>>]
  /\ startTO = [i \in Inst |-> <<>>]
  /\ charTO = [i \in Inst |-> <<>>]
  /\ twIvl = [i \in Inst |-> <<>>]
  /\ level = [i \in Inst |-> 0]
  /\ width = [i \in Inst |-> 0]
  /\ wEff = [i \in Inst |-> <<>>]
  /\ widthTO = [i \in Inst |-> <<>>]

\* The script has been started: puppeteer.launch(...) is called and awaited.
InitPdf ==
  /\ pc = "launch"
  /\ calls = <<"launch">>
  /\ okSteps = <<>>
  /\ srcExists \in BOOLEAN
  /\ browser = "none"
  /\ pageOpen = FALSE
  /\ loaded = FALSE
  /\ inflight = 0
  /\ quiet = FALSE
  /\ outFile \in {NoFile("absent"), NoFile("stale")}
  /\ stdout = <<>>
  /\ exitCode = "running"

\* Faulty variant: the rejected call is issued again.
OnReject_Retry(step) == step

\* Faulty variant: the rejection is swallowed and the script goes on.
OnReject_Continue(step) ==
  CASE step = "launch" -> "newPage"
    [] step = "newPage" -> "goto"
    [] step = "goto" -> "pdf"
    [] step = "pdf" -> "close"
    [] OTHER -> "failed"

\* An awaited call rejects: nothing catches it, the process dies.
OnReject(step) == "failed"

\* Faulty variant: the confirmation is printed without closing the browser.
OnResolve_SkipClose(step) ==
  CASE step = "launch" -> "newPage"
    [] step = "newPage" -> "goto"
    [] step = "goto" -> "pdf"
    [] step = "pdf" -> "log"
    [] step = "close" -> "log"

\* Faulty variant: the browser is closed right after the navigation.
OnResolve_CloseEarly(step) ==
  CASE step = "launch" -> "newPage"
    [] step = "newPage" -> "goto"
    [] step = "goto" -> "close"
    [] step = "pdf" -> "close"
    [] step = "close" -> "log"

\* An awaited call resolves: the script goes on to the next statement.
OnResolve(step) ==
  CASE step = "launch" -> "newPage"
    [] step = "newPage" -> "goto"
    [] step = "goto" -> "pdf"
    [] step = "pdf" -> "close"
    [] step = "close" -> "log"

Resolve(step) ==
  /\ okSteps' = Append(okSteps, step)
  /\ IF OnResolve(step) = "log"
     THEN /\ calls' = Append(calls, "log")
          /\ stdout' = Append(stdout, ConfirmationLine)
          /\ pc' = "done"
          /\ exitCode' = 0
     ELSE /\ calls' = Append(calls, OnResolve(step))
          /\ pc' = OnResolve(step)
          /\ UNCHANGED <<stdout, exitCode>>

Reject(step) ==
  /\ UNCHANGED <<okSteps, stdout>>
  /\ IF OnReject(step) = "failed"
     THEN /\ pc' = "failed"
          /\ exitCode' = 1
          /\ UNCHANGED calls
     ELSE /\ pc' = OnReject(step)
          /\ calls' = Append(calls, OnReject(step))
          /\ UNCHANGED exitCode

\* const browser = await puppeteer.launch(...)
LaunchDone(ok) ==
  /\ pc = "launch"
  /\ IF ok THEN browser' = "open" /\ Resolve("launch")
     ELSE UNCHANGED browser /\ Reject("launch")
  /\ UNCHANGED <<pageVars, srcExists, pageOpen, loaded, inflight, quiet, outFile>>

\* const page = await browser.newPage()
NewPageDone(ok) ==
  /\ pc = "newPage"
  /\ IF ok THEN browser = "open" /\ pageOpen' = TRUE /\ Resolve("newPage")
     ELSE UNCHANGED pageOpen /\ Reject("newPage")
  /\ UNCHANGED <<pageVars, srcExists, browser, loaded, inflight, quiet, outFile>>

\* The browser process dies while the script awaits one of its calls.
BrowserCrash ==
  /\ pc \in {"newPage", "goto", "pdf", "close"}
  /\ browser = "open"
  /\ browser' = "crashed"
  /\ UNCHANGED <<pageVars, pc, calls, okSteps, srcExists, pageOpen, loaded,
                 inflight, quiet, outFile, stdout, exitCode>>

\* The page reads the document from file://.../cv.html.
DocumentLoaded ==
  /\ pc = "goto"
  /\ browser = "open"
  /\ srcExists
  /\ ~loaded
  /\ loaded' = TRUE
  /\ UNCHANGED <<pageVars, pc, calls, okSteps, srcExists, browser, pageOpen,
                 inflight, quiet, outFile, stdout, exitCode>>

\* The loaded page opens a network connection.
RequestStart ==
  /\ pc \in {"goto", "pdf", "close"}
  /\ browser = "open"
  /\ loaded
  /\ inflight < MaxInflight
  /\ inflight' = inflight + 1
  /\ quiet' = FALSE
  /\ UNCHANGED <<pageVars, pc, calls, okSteps, srcExists, browser, pageOpen,
                 loaded, outFile, stdout, exitCode>>

\* A network connection of the page ends.
RequestEnd ==
  /\ pc \in {"goto", "pdf", "close"}
  /\ browser = "open"
  /\ inflight > 0
  /\ inflight' = inflight - 1
  /\ UNCHANGED <<pageVars, pc, calls, okSteps, srcExists, browser, pageOpen,
                 loaded, quiet, outFile, stdout, exitCode>>

\* No connection has been open for the whole idle window.
IdleWindowElapsed ==
  /\ pc \in {"goto", "pdf", "close"}
  /\ browser = "open"
  /\ loaded
  /\ inflight = 0
  /\ ~quiet
  /\ quiet' = TRUE
  /\ UNCHANGED <<pageVars, pc, calls, okSteps, srcExists, browser, pageOpen,
                 loaded, inflight, outFile, stdout, exitCode>>

\* Faulty variant: page.goto is not awaited.
NavigationFinished_NoWait == TRUE

\* waitUntil: 'networkidle0'
NavigationFinished == loaded /\ quiet

\* await page.goto(`file://${htmlPath}`, { waitUntil: 'networkidle0' })
\* rejects when the file cannot be read or the navigation times out.
GotoDone(ok) ==
  /\ pc = "goto"
  /\ IF ok THEN browser = "open" /\ NavigationFinished /\ Resolve("goto")
     ELSE Reject("goto")
  /\ UNCHANGED <<pageVars, srcExists, browser, pageOpen, loaded, inflight,
                 quiet, outFile>>

\* await page.pdf({...}); a failed export may leave a partial file behind.
PdfDone(ok, partial) ==
  /\ pc = "pdf"
  /\ IF ok THEN browser = "open" /\ ~partial /\ outFile' = PdfOptions /\ Resolve("pdf")
     ELSE /\ outFile' = IF partial THEN NoFile("partial") ELSE outFile
          /\ Reject("pdf")
  /\ UNCHANGED <<pageVars, srcExists, browser, pageOpen, loaded, inflight, quiet>>

\* await browser.close(); console.log(...)
CloseDone(ok) ==
  /\ pc = "close"
  /\ IF ok THEN browser = "open" /\ browser' = "closed" /\ Resolve("close")
     ELSE UNCHANGED browser /\ Reject("close")
  /\ UNCHANGED <<pageVars, srcExists, pageOpen, loaded, inflight, quiet, outFile>>

NextPdf ==
  \/ \E ok \in BOOLEAN : LaunchDone(ok)
  \/ \E ok \in BOOLEAN : NewPageDone(ok)
  \/ BrowserCrash
  \/ DocumentLoaded
  \/ RequestStart
  \/ RequestEnd
  \/ IdleWindowElapsed
  \/ \E ok \in BOOLEAN : GotoDone(ok)
  \/ \E ok \in BOOLEAN, partial \in BOOLEAN : PdfDone(ok, partial)
  \/ \E ok \in BOOLEAN : CloseDone(ok)

InitExport == PageIdle /\ InputIdle /\ InitPdf
SpecPdf == InitExport /\ [][NextPdf]_vars

(* ------------------------------ App alone ------------------------------ *)

\* App before its first render, in a window at any scroll position.
InitInput ==
  /\ PageIdle
  /\ PdfNotRun
  /\ appLife = "new"
  /\ scrollY \in ScrollYs
  /\ pSpeed \in ParallaxSpeeds
  /\ offset = 0
  /\ scrolled = FALSE
  /\ position = [x |-> 0, y |-> 0]
  /\ listeners = <<>>

NextInput ==
  \/ AppMount
  \/ \E y \in ScrollYs : Scroll(y)
  \/ \E cx \in ClientXs, cy \in ClientYs, w \in InnerWidths, h \in InnerHeights :
       MouseMove(cx, cy, w, h)
  \/ \E sp \in ParallaxSpeeds : SpeedChange(sp)
  \/ AppUnmount

SpecInput == InitInput /\ [][NextInput]_vars

(* ============================== properties ============================= *)

IsPrefix(s, t) == Len(s) <= Len(t) /\ s = SubSeq(t, 1, Len(s))

\* a <= b on JavaScript numbers; false when either side is NaN
NumLeq(a, b) ==
  /\ a.k # "nan"
  /\ b.k # "nan"
  /\ \/ a.k = "ninf"
     \/ a.k = "num" /\ b.k = "num" /\ a.v <= b.v

IntersectingCallback(i) == \E es \in EntryLists : es[1] /\ IOCallback(i, es)
AnyCallback(i) == \E es \in EntryLists : IOCallback(i, es)
FrameRuns(i) == rafQ[i] # <<>> /\ \E lag \in FrameLags : Frame(lag)
TypewriterTimerFires(i) == TwStartFire(i) \/ TwCharFire(i) \/ TwIntervalTick(i)

\* C1: isInView is false until the first observer callback whose entry is
\* intersecting, and true in every later state of the instance: a later
\* non-intersecting callback or a threshold change never resets it.
C1_LatchOneWay ==
  /\ [](\A i \in Inst : life[i] = "new" => ~isInView[i])
  /\ [][\A i \in Inst :
          /\ isInView[i] => isInView'[i]
          /\ (~isInView[i] /\ isInView'[i]) => IntersectingCallback(i)
          /\ (life[i] = "mounted" /\ IntersectingCallback(i)) => isInView'[i]]_vars

\* A latched instance whose threshold was changed afterwards and that is
\* still observed.
C1_Witness ==
  \E i \in Inst : /\ kind[i] = "reveal"
                  /\ life[i] = "mounted"
                  /\ isInView[i]
                  /\ observing[i]
                  /\ threshold[i] # DefaultThreshold(kind[i])

\* C2: in each Counter variant the displayed count never decreases, is 0 when
\* the animation is activated, and is exactly end at every frame or tick
\* sampled duration or more after activation.
C2_CounterMonotoneExact ==
  [][\A i \in Inst : kind[i] \in CounterKinds =>
       /\ NumLeq(count[i], count'[i])
       /\ (CounterEffect(i) /\ isInView[i]) => count'[i] = Num(0)
       /\ \A lag \in FrameLags :
            ( /\ Frame(lag)
              /\ rafQ[i] # <<>>
              /\ life[i] = "mounted"
              /\ now - lag - rafQ[i][Len(rafQ[i])].start >= duration[i] )
            => count'[i] = Num(end[i])
       /\ ( /\ IntervalTick(i)
            /\ now - (ivl[i][1].due - (ivl[i][1].k + 1) * IntervalMs) >= duration[i] )
          => count'[i] = Num(end[i])]_vars

\* C3: a Typewriter reveals nothing before its start delay has elapsed, then
\* one more character of the text per elapsed interval (never more at once,
\* never skipping a length), ends showing the whole text, and once it shows
\* the whole text no further timer tick changes it.
C3_TypewriterSteps ==
  /\ [](\A i \in Inst : kind[i] \in TypewriterKinds =>
          /\ startTO[i] # <<>> => displayed[i] = <<>>
          /\ IsPrefix(displayed[i], text[i])
          /\ displayed[i] # <<>> =>
               now >= mountedAt[i] + delay[i] + Len(displayed[i]) * speed[i]
          /\ ( /\ life[i] = "mounted"
               /\ ~Busy(i) )
             => displayed[i] = text[i])
  /\ [][\A i \in Inst :
          /\ Len(displayed'[i]) \in {Len(displayed[i]), Len(displayed[i]) + 1}
          /\ Len(displayed[i]) = Len(text[i]) => displayed'[i] = displayed[i]]_vars

\* An effect-chained Typewriter that typed a text of at least two characters
\* to the end and whose typing effect ran once more after the last one.
C3_Witness ==
  \E i \in Inst : /\ kind[i] = "twEffect"
                  /\ life[i] = "mounted"
                  /\ Len(text[i]) >= 2
                  /\ displayed[i] = text[i]
                  /\ tEff[i] = <<TRUE, text[i], text[i], speed[i]>>

\* C4: while a Counter's isInView is false its count is 0 and it has neither
\* a frame callback nor an interval timer scheduled.
C4_NoAnimationBeforeVisible ==
  \A i \in Inst : (kind[i] \in CounterKinds /\ ~isInView[i]) =>
     /\ count[i] = Num(0)
     /\ rafQ[i] = <<>>
     /\ ivl[i] = <<>>

\* A mounted Counter whose effect has run while it was not in view.
C4_Witness ==
  \E i \in Inst : /\ kind[i] \in CounterKinds
                  /\ life[i] = "mounted"
                  /\ observing[i]
                  /\ ~isInView[i]
                  /\ cEff[i] = <<FALSE, end[i], duration[i]>>

\* C5: after a Typewriter is unmounted none of its timer callbacks fires.
C5_TypewriterTimersCancelled ==
  [][\A i \in Inst : life[i] = "unmounted" => ~TypewriterTimerFires(i)]_vars

\* C6: after a Counter is unmounted none of its animate or interval
\* callbacks runs.
C6_CounterCallbacksCancelled ==
  [][\A i \in Inst : life[i] = "unmounted" => ~(FrameRuns(i) \/ IntervalTick(i))]_vars

\* C7: an unmounted useInView instance has disconnected its observer, gets no
\* intersection callback and keeps its state, latched or not; a callback of
\* one instance changes nothing of another.
C7_ObserverReleased ==
  /\ [](\A i \in Inst : life[i] = "unmounted" => ~observing[i])
  /\ [][\A i \in Inst :
          /\ life[i] = "unmounted" => (~AnyCallback(i) /\ isInView'[i] = isInView[i])
          /\ \A j \in Inst \ {i} :
               AnyCallback(j) => (isInView'[i] = isInView[i] /\ observing'[i] = observing[i])]_vars

\* Two unmounted instances, one that had latched and one that had not.
C7_Witness ==
  \E i, j \in Inst : /\ life[i] = "unmounted"
                     /\ life[j] = "unmounted"
                     /\ hasEl[i]
                     /\ hasEl[j]
                     /\ isInView[i]
                     /\ ~isInView[j]

\* The Counter's animation has completed showing its target.
CounterComplete(i) ==
  /\ kind[i] \in CounterKinds
  /\ cEff[i] = <<TRUE, end[i], duration[i]>>
  /\ rafQ[i] = <<>>
  /\ ivl[i] = <<>>
  /\ count[i] = Num(end[i])

C9_LatchBeforeActivation ==
  \A i \in Inst :
     /\ (kind[i] \in TypewriterKinds /\ displayed[i] # <<>>) => isInView[i]
     /\ (kind[i] \in CounterKinds /\ count[i] # Num(0)) => isInView[i]

\* C9 as amended: a Counter shows a first non-zero value only when its latch
\* is true; a Typewriter shows a first character only once its start delay
\* has elapsed since mount, whatever the latch of the hosting element.
C9_CounterLatchTypewriterDelay ==
  \A i \in Inst :
     /\ (kind[i] \in CounterKinds /\ count[i] # Num(0)) => isInView[i]
     /\ (kind[i] \in TypewriterKinds /\ displayed[i] # <<>>) =>
          (startTO[i] = <<>> /\ now >= mountedAt[i] + delay[i])

\* A mounted, latched Counter in the middle of its animation.
C9_Witness ==
  \E i \in Inst : /\ kind[i] \in CounterKinds
                  /\ life[i] = "mounted"
                  /\ isInView[i]
                  /\ count[i].k = "num"
                  /\ 0 < count[i].v
                  /\ count[i].v < end[i]

\* C10: the export issues launch, newPage, goto, pdf, close and the
\* confirmation in this order, each at most once, and a call is issued only
\* when every call before it has resolved.
C10_StepsInOrderOnce ==
  /\ IsPrefix(calls, StepOrder)
  /\ IsPrefix(okSteps, StepOrder)
  /\ Len(calls) <= Len(okSteps) + 1
  /\ pc \in {"launch", "newPage", "goto", "pdf", "close"} => calls[Len(calls)] = pc

\* A run that went through every step.
C10_Witness ==
  /\ pc = "done"
  /\ calls = StepOrder
  /\ Len(okSteps) = 5

\* The process has exited with this code.
ExitedWith(code) == pc \in {"done", "failed"} /\ exitCode = code

\* A call of the script rejects in this step.
StepFails ==
  \/ LaunchDone(FALSE)
  \/ NewPageDone(FALSE)
  \/ GotoDone(FALSE)
  \/ \E partial \in BOOLEAN : PdfDone(FALSE, partial)
  \/ CloseDone(FALSE)

\* C11: a failed launch, navigation or export ends the run failed with a
\* non-zero exit code; no later call is issued, the failed call is not issued
\* again and no confirmation is printed, then or afterwards.
C11_FailureIsFatal ==
  /\ [](pc = "failed" => (ExitedWith(1) /\ stdout = <<>> /\ Len(calls) = Len(okSteps) + 1))
  /\ [][/\ StepFails => (pc' = "failed" /\ exitCode' = 1 /\ calls' = calls /\ stdout' = <<>>)
        /\ pc = "failed" => (pc' = "failed" /\ calls' = calls /\ stdout' = stdout
                             /\ exitCode' = exitCode /\ outFile' = outFile)]_vars

\* A run that died in the export call.
C11_Witness ==
  /\ pc = "failed"
  /\ calls = <<"launch", "newPage", "goto", "pdf">>
  /\ browser = "open"
  /\ ExitedWith(1)

\* C12: when cv.html does not exist the run never issues page.pdf, writes
\* nothing to the output file and never exits with code 0.
C12_MissingSourceWritesNothing ==
  ~srcExists =>
     /\ pc \notin {"pdf", "close", "done"}
     /\ Len(calls) <= 3
     /\ outFile.state \in {"absent", "stale"}
     /\ ~ExitedWith(0)
     /\ pc = "failed" => ExitedWith(1)

\* A run without cv.html that died in page.goto.
C12_Witness ==
  /\ ~srcExists
  /\ pc = "failed"
  /\ calls = <<"launch", "newPage", "goto">>
  /\ ExitedWith(1)

\* C13: the run exits 0 exactly when all five awaited calls resolved, and
\* then it has printed the one confirmation line and written the one file
\* CV_Gajanraj_Mohanaraj.pdf as A4 with zero margins and backgrounds; a
\* failed run exits non-zero and has printed nothing.
C13_ExitCodeAndOutput ==
  /\ ExitedWith(0) <=> Len(okSteps) = 5
  /\ ExitedWith(0) <=> pc = "done"
  /\ Len(stdout) <= 1
  /\ ExitedWith(0) =>
       /\ Len(stdout) = 1
       /\ outFile.state = "written"
       /\ outFile.path = "CV_Gajanraj_Mohanaraj.pdf"
       /\ outFile.format = "A4"
       /\ outFile.margin = <<0, 0, 0, 0>>
       /\ outFile.printBackground
  /\ ~ExitedWith(0) => stdout = <<>>
  /\ pc = "failed" => ExitedWith(1)

\* A successful run over a stale output file.
C13_Witness ==
  /\ ExitedWith(0)
  /\ stdout = <<ConfirmationLine>>
  /\ outFile.state = "written"
  /\ srcExists

\* C14: when the confirmation is printed and the run exits 0, browser.close
\* has resolved and the browser the run launched is closed.
C14_BrowserClosedOnSuccess ==
  (ExitedWith(0) \/ stdout # <<>>) =>
     /\ browser = "closed"
     /\ Len(okSteps) = 5
     /\ okSteps[5] = "close"

\* A successful run: the page was created and the browser is closed.
C14_Witness ==
  /\ pc = "done"
  /\ pageOpen
  /\ browser = "closed"
  /\ stdout # <<>>

\* C15: once an instance's latch is true its observer no longer observes the
\* element, and no intersection callback is delivered to the instance while
\* it stays mounted.
C15_UnsubscribedAfterLatch ==
  /\ [](\A i \in Inst : (life[i] = "mounted" /\ isInView[i]) => ~observing[i])
  /\ [][\A i \in Inst : (life[i] = "mounted" /\ isInView[i]) => ~AnyCallback(i)]_vars

\* The time at which the interval of the setInterval variant was created.
IntervalStart(t) == t.due - IntervalMs * (t.k + 1)

\* C17: the value a frame or tick displays is floor(ease(min(elapsed /
\* duration, 1)) * end) for the time elapsed since activation, whatever the
\* number of frames or ticks delivered before it (positive durations).
C17_ValueFromElapsedTime ==
  [][\A i \in Inst : (life[i] = "mounted" /\ duration[i] > 0) =>
       /\ \A lag \in FrameLags :
            (Frame(lag) /\ rafQ[i] # <<>>) =>
               count'[i] = AnimateValue(kind[i], rafQ[i][Len(rafQ[i])], now - lag)
       /\ IntervalTick(i) =>
            count'[i] = LinearValue([start |-> IntervalStart(ivl[i][1]),
                                     end |-> ivl[i][1].end,
                                     duration |-> ivl[i][1].duration], now)]_vars

\* C18: a Counter with duration 0 only ever displays a number and, once a
\* frame or tick has run, displays its target with nothing pending; a
\* useInView without an element observes nothing.
C18_DegenerateConfigsBenign ==
  /\ [](\A i \in Inst :
          /\ (kind[i] \in CounterKinds /\ duration[i] = 0) => count[i].k = "num"
          /\ ~hasEl[i] => ~observing[i])
  /\ [][\A i \in Inst :
          ( /\ kind[i] \in CounterKinds
            /\ duration[i] = 0
            /\ life[i] = "mounted"
            /\ FrameRuns(i) \/ IntervalTick(i) ) =>
               (count'[i] = Num(end[i]) /\ rafQ'[i] = <<>> /\ ivl'[i] = <<>>)]_vars

\* The Counter has an animate callback or an interval pending past the time
\* at which its animation is over.
Overrun(i) ==
  \/ /\ rafQ[i] # <<>>
     /\ \A lag \in FrameLags : now - lag >= rafQ[i][1].start + rafQ[i][1].duration
  \/ /\ ivl[i] # <<>>
     /\ now >= IntervalStart(ivl[i][1]) + ivl[i][1].duration + IntervalMs

\* C16: a Counter with a positive duration whose frames and ticks are
\* delivered ends with no animate callback or interval pending past the end
\* of its animation; a frame whose progress is 1 requests no further frame,
\* and the tick that sets count to end clears the interval.
C16_CounterStopsScheduling ==
  /\ \A i \in Inst : <>[](duration[i] > 0 => ~Overrun(i))
  /\ [][\A i \in Inst : duration[i] > 0 =>
          /\ \A lag \in FrameLags :
               ( /\ Frame(lag)
                 /\ rafQ[i] # <<>>
                 /\ now - lag - rafQ[i][1].start >= rafQ[i][1].duration ) =>
                    rafQ'[i] = <<>>
          /\ (IntervalTick(i) /\ life[i] = "mounted" /\ count'[i] = Num(end[i])) =>
                ivl'[i] = <<>>]_vars

\* A mounted Counter that has run to its target and has nothing pending while
\* the clock can still advance.
C16_Witness ==
  \E i \in Inst : /\ kind[i] \in CounterKinds
                  /\ life[i] = "mounted"
                  /\ duration[i] > 0
                  /\ end[i] > 0
                  /\ cEff[i] = <<TRUE, end[i], duration[i]>>
                  /\ count[i] = Num(end[i])
                  /\ rafQ[i] = <<>>
                  /\ ivl[i] = <<>>
                  /\ now + 500 <= MaxNow

\* C20: a skill bar unmounted while its width timeout is pending has the
\* timeout cancelled, so no setWidth call happens after the unmount; while
\* mounted its width is 0 until it is in view and the delay has elapsed, and
\* skill.level from then on.
C20_SkillTimerReleased ==
  /\ [](\A i \in Inst : kind[i] \in SkillKinds =>
          /\ life[i] = "unmounted" => widthTO[i] = <<>>
          /\ life[i] = "mounted" => width[i] \in {0, level[i]}
          /\ (life[i] = "mounted" /\ ~isInView[i]) => width[i] = 0)
  /\ [][\A i \in Inst : kind[i] \in SkillKinds =>
          /\ life[i] = "unmounted" => ~WidthTimerFire(i)
          /\ (life[i] = "mounted" /\ width[i] = level[i]) => width'[i] = level[i]
          /\ width'[i] # width[i] =>
                (isInView[i] /\ now >= mountedAt[i] + delay[i] * 10)]_vars

\* C19: while App is mounted every scroll event leaves offset = scrollY *
\* speed and scrolled = (scrollY > 50), and every mousemove leaves position
\* at the scaled coordinates of that event; a speed change leaves only the
\* handler of the new speed registered, and after the unmount no handler of
\* App is registered and no event changes its state.
C19_SamplingAndRelease ==
  /\ [](appLife = "mounted" =>
          /\ Handlers(listeners, "parallax") = <<HandleParallax(pSpeed)>>
          /\ Len(listeners) = 3)
  /\ [](appLife = "unmounted" => listeners = <<>>)
  /\ [][/\ appLife = "mounted" =>
            /\ \A y \in ScrollYs : Scroll(y) =>
                  /\ offset' = y * pSpeed
                  /\ scrolled' = (y > 50)
            /\ \A cx \in ClientXs, cy \in ClientYs, w \in InnerWidths, h \in InnerHeights :
                  MouseMove(cx, cy, w, h) =>
                     /\ position'.x * w = 2000 * cx - 1000 * w
                     /\ position'.y * h = 2000 * cy - 1000 * h
        /\ appLife = "unmounted" =>
              (offset' = offset /\ scrolled' = scrolled /\ position' = position)]_vars

\* App was scrolled past the threshold under a changed speed, the pointer
\* moved off centre, and App was then unmounted.
C19_Witness ==
  /\ appLife = "unmounted"
  /\ listeners = <<>>
  /\ pSpeed = 5
  /\ offset = 120 * 5
  /\ scrolled
  /\ position = [x |-> -500, y |-> 0]
  /\ scrollY = 0

\* C25: browser.close is called only after launch, newPage, goto and pdf
\* have all resolved; a failed run has not closed its browser; and a run that
\* fails in browser.close has written the output file, exits with code 1 and
\* prints nothing.
C25_CloseOnlyAfterSuccess ==
  /\ (\E j \in 1..Len(calls) : calls[j] = "close") =>
        /\ Len(okSteps) >= 4
        /\ SubSeq(okSteps, 1, 4) = <<"launch", "newPage", "goto", "pdf">>
        /\ outFile.state = "written"
        /\ outFile.path = "CV_Gajanraj_Mohanaraj.pdf"
  /\ pc = "failed" =>
        /\ browser # "closed"
        /\ \A j \in 1..Len(okSteps) : okSteps[j] # "close"
        /\ ExitedWith(1)
        /\ stdout = <<>>

\* browser.close rejected: the file is written, the browser is still open
\* and the run has failed.
C25_Witness ==
  /\ pc = "failed"
  /\ calls = <<"launch", "newPage", "goto", "pdf", "close">>
  /\ outFile.state = "written"
  /\ browser = "open"
  /\ stdout = <<>>

\* C22: the count a Counter with a positive duration displays is a number
\* in 0..end in every state, the first animation frame included.
C22_CountWithinRange ==
  \A i \in Inst : (kind[i] \in CounterKinds /\ duration[i] > 0) =>
     /\ count[i].k = "num"
     /\ count[i].v >= 0
     /\ count[i].v <= end[i]

\* C23: a Counter has at most one animation loop pending at any time, also
\* after its effect has re-run for another end or duration.
C23_SingleLoop ==
  \A i \in Inst : kind[i] \in CounterKinds => Len(rafQ[i]) + Len(ivl[i]) <= 1

\* C24: the string a Typewriter displays is a prefix of its current text
\* prop, also after the text, speed or delay prop has changed.
C24_DisplayedPrefixOfText ==
  \A i \in Inst : kind[i] \in TypewriterKinds =>
     /\ Len(displayed[i]) <= Len(text[i])
     /\ IsPrefix(displayed[i], text[i])

\* The state and the pending callbacks of one instance.
Local(i) ==
  <<life[i], mountedAt[i], threshold[i], observing[i], isInView[i], count[i],
    cEff[i], rafQ[i], ivl[i], displayed[i], started[i], tEff[i], startTO[i],
    charTO[i], twIvl[i], kind[i], hasEl[i], end[i], duration[i], text[i],
    speed[i], delay[i]>>

\* An event of one instance: its render, a callback of its observer, one of
\* its effects or one of its timers.
OwnEvent(i) ==
  \/ Mount(i)
  \/ \E b \in BOOLEAN : IOCallback(i, <<b>>)
  \/ CounterEffect(i)
  \/ IntervalTick(i)
  \/ TwStartFire(i)
  \/ TwEffect(i)
  \/ TwCharFire(i)

\* C21: an event of one instance leaves the state of the other unchanged, a
\* frame leaves an instance without a pending callback unchanged, and what
\* an instance has pending and displays is determined by its own props.
C21_InstancesIndependent ==
  /\ [](\A i \in Inst :
          /\ \A j \in 1..Len(rafQ[i]) :
               rafQ[i][j].end = end[i] /\ rafQ[i][j].duration = duration[i]
          /\ \A j \in 1..Len(ivl[i]) :
               ivl[i][j].end = end[i] /\ ivl[i][j].duration = duration[i]
          /\ \A j \in 1..Len(charTO[i]) : charTO[i][j].text = text[i]
          /\ \A j \in 1..Len(twIvl[i]) : twIvl[i][j].text = text[i]
          /\ IsPrefix(displayed[i], text[i])
          /\ (kind[i] \in CounterKinds /\ CounterComplete(i)) => count[i] = Num(end[i]))
  /\ [][\A i \in Inst : \A j \in Inst \ {i} :
          /\ OwnEvent(i) => Local(j)' = Local(j)
          /\ (rafQ[j] = <<>> /\ \E lag \in FrameLags : Frame(lag)) =>
                Local(j)' = Local(j)]_vars

\* A Counter and a Typewriter on one page that have both run to their end.
C21_Witness ==
  /\ kind[1] \in CounterKinds
  /\ kind[2] \in TypewriterKinds
  /\ life = [i \in Inst |-> "mounted"]
  /\ count[1] = Num(end[1])
  /\ end[1] > 0
  /\ displayed[2] = text[2]
  /\ text[2] # <<>>

====
